---------------------------- MODULE Spec2Model ----------------------------
(***************************************************************************)
(* A model of the configuration-resolution utilities of stac-generator:    *)
(* dict_merge, load_plugins, dot2dict and nested_get                       *)
(* (src/stac_generator/core/utils.py).                                     *)
(*                                                                         *)
(* Python objects live in a heap: a sequence of objects, an object's       *)
(* address being its index.  A value is a record [t, v]: t is the Python   *)
(* type, v the payload of a scalar or the address of a list or a dict.     *)
(* Strings met as values are coded by a number (0 is the empty string).    *)
(* A dict object keeps its items in insertion order, as Python does.       *)
(***************************************************************************)
EXTENDS Integers, Sequences, FiniteSets, TLC

VARIABLES
    heap,       \* the Python heap
    heap0,      \* the heap as it was before the call(s)
    args,       \* addresses of the layers passed to dict_merge
    add_keys,   \* dict_merge's keyword argument
    pc,         \* position of the caller
    copies,     \* whether each expression is given its own copies of a, b, c
    result,     \* what the call(s) returned
    path,       \* dot2dict / nested_get: the inputs
    plug        \* load_plugins: the loop's state

vars == <<heap, heap0, args, add_keys, pc, copies, result, path, plug>>

\* ------------------------------------------------------------------ bounds
MaxLen == 2      \* longest list among the inputs
MaxLayers == 3   \* most layers in one dict_merge call
MaxSpecs == 3    \* most plugin specs in a section
MaxPath == 3     \* longest key path

\* ------------------------------------------------------------------ values
None == [t |-> "none", v |-> 0]
PyInt(n) == [t |-> "int", v |-> n]
PyBool(n) == [t |-> "bool", v |-> n]
PyStr(n) == [t |-> "str", v |-> n]
Ref(t, a) == [t |-> t, v |-> a]

Unused == <<>>

IsScalar(x) == x.t \in {"int", "bool", "str", "none"}
IsNumber(x) == x.t \in {"int", "bool"}

\* bool(x) is False: 0, False, "", None, [] and {}
Falsy(h, x) ==
    CASE x.t \in {"int", "bool", "str"} -> x.v = 0
      [] x.t = "none" -> TRUE
      [] OTHER -> h[x.v].items = <<>>

\* mapping, sequence or scalar
Category(x) == IF x.t \in {"dict", "list"} THEN x.t ELSE "scalar"

\* A check of the category where the code checks the type
SameCategory(v, acc) == Category(v) = Category(acc)

\* isinstance(v, type(acc)): bool is a subclass of int
IsInstance(v, acc) ==
    \/ v.t = acc.t
    \/ v.t = "bool" /\ acc.t = "int"

\* ------------------------------------------------------------------ dicts
DictKeys(h, d) == {h[d].items[i].key : i \in DOMAIN h[d].items}

HasKey(h, d, k) == k \in DictKeys(h, d)

KeyIndex(h, d, k) == CHOOSE i \in DOMAIN h[d].items : h[d].items[i].key = k

\* d.get(k)
DictGet(h, d, k) ==
    IF HasKey(h, d, k) THEN h[d].items[KeyIndex(h, d, k)].val ELSE None

\* d[k] = v
DictSet(h, d, k, v) ==
    IF HasKey(h, d, k)
    THEN [h EXCEPT ![d].items[KeyIndex(h, d, k)].val = v]
    ELSE [h EXCEPT ![d].items = Append(@, [key |-> k, val |-> v])]

\* d.copy(): a new dict object holding the same values (a shallow copy)
DictCopy(h, d) == Append(h, h[d])

\* x == y in Python, x read in heap h1 and y in heap h2
RECURSIVE PyEq(_, _, _, _)
PyEq(h1, x, h2, y) ==
    CASE IsNumber(x) /\ IsNumber(y) -> x.v = y.v
      [] x.t = "str" /\ y.t = "str" -> x.v = y.v
      [] x.t = "none" /\ y.t = "none" -> TRUE
      [] x.t = "list" /\ y.t = "list" ->
            LET a == h1[x.v].items
                b == h2[y.v].items
            IN  /\ Len(a) = Len(b)
                /\ \A i \in DOMAIN a : PyEq(h1, a[i], h2, b[i])
      [] x.t = "dict" /\ y.t = "dict" ->
            /\ DictKeys(h1, x.v) = DictKeys(h2, y.v)
            /\ \A k \in DictKeys(h1, x.v) :
                  PyEq(h1, DictGet(h1, x.v, k), h2, DictGet(h2, y.v, k))
      [] OTHER -> FALSE

\* x in l, for a list l
Contains(h, l, x) == \E i \in DOMAIN h[l].items : PyEq(h, h[l].items[i], h, x)

\* --------------------------------------------------------------- dict_merge
\* for list_value in v: if list_value not in rtn_dct[k]: rtn_dct[k].append(..)
RECURSIVE ExtendNoCheck(_, _, _)
ExtendNoCheck(h, acc, vs) ==
    IF vs = <<>> THEN h
    ELSE ExtendNoCheck([h EXCEPT ![acc].items = Append(@, Head(vs))], acc, Tail(vs))

RECURSIVE ExtendUnique(_, _, _)
ExtendUnique(h, acc, vs) ==
    IF vs = <<>> THEN h
    ELSE LET e == Head(vs)
             h1 == IF Contains(h, acc, e) THEN h
                   ELSE [h EXCEPT ![acc].items = Append(@, e)]
         IN  ExtendUnique(h1, acc, Tail(vs))

\* The branch for mismatched types: the value kept at the key, or the TypeError
ReconcileAdopt(h, acc, v) ==
    IF v.t = "list" /\ Contains(h, v.v, acc) THEN [err |-> FALSE, val |-> v]
    ELSE IF acc.t = "list" /\ Contains(h, acc.v, v) THEN [err |-> FALSE, val |-> v]
    ELSE [err |-> TRUE, val |-> acc]

Reconcile(h, acc, v) ==
    IF v.t = "list" /\ Contains(h, v.v, acc) THEN [err |-> FALSE, val |-> v]
    ELSE IF acc.t = "list" /\ Contains(h, acc.v, v) THEN [err |-> FALSE, val |-> acc]
    ELSE [err |-> TRUE, val |-> acc]

RECURSIVE Reverse(_)
Reverse(s) == IF s = <<>> THEN <<>> ELSE Append(Reverse(Tail(s)), Head(s))

RECURSIVE SelectItems(_, _)
SelectItems(its, ks) ==
    IF its = <<>> THEN <<>>
    ELSE IF Head(its).key \in ks THEN <<Head(its)>> \o SelectItems(Tail(its), ks)
    ELSE SelectItems(Tail(its), ks)

\* add_keys is False: the items of merge_dct whose key rtn_dct has.  The new
\* dict is built by iterating over a set, in an order Python does not fix:
\* rev chooses between merge_dct's order and its reverse.
FilterKeys(h, rtn, its, rev) ==
    LET kept == SelectItems(its, DictKeys(h, rtn))
    IN  IF rev THEN Reverse(kept) ELSE kept

RECURSIVE dict_merge(_, _, _, _)
RECURSIVE MergeItems(_, _, _, _, _)
RECURSIVE MergeLayers(_, _, _, _, _)

\* One pass of the loop over merge_dct.items(): [h, err]
MergeItem(h, rtn, k, v, addKeys, rev) ==
    LET acc == DictGet(h, rtn, k)
    IN  IF Falsy(h, acc)
        THEN [h |-> DictSet(h, rtn, k, v), err |-> FALSE]
        ELSE IF ~IsInstance(v, acc)
        THEN LET r == Reconcile(h, acc, v)
             IN  IF r.err THEN [h |-> h, err |-> TRUE]
                 ELSE [h |-> DictSet(h, rtn, k, r.val), err |-> FALSE]
        ELSE IF acc.t = "dict" /\ v.t = "dict"
        THEN LET sub == dict_merge(h, <<acc.v, v.v>>, addKeys, rev)
             IN  IF sub.err THEN [h |-> sub.h, err |-> TRUE]
                 ELSE [h |-> DictSet(sub.h, rtn, k, Ref("dict", sub.r)),
                       err |-> FALSE]
        ELSE IF v.t = "list"
        THEN [h |-> ExtendUnique(h, acc.v, h[v.v].items), err |-> FALSE]
        ELSE [h |-> DictSet(h, rtn, k, v), err |-> FALSE]

MergeItems(h, rtn, its, addKeys, rev) ==
    IF its = <<>> THEN [h |-> h, err |-> FALSE]
    ELSE LET one == MergeItem(h, rtn, Head(its).key, Head(its).val, addKeys, rev)
         IN  IF one.err THEN one
             ELSE MergeItems(one.h, rtn, Tail(its), addKeys, rev)

\* The loop over merge_dicts
MergeLayers(h, rtn, layers, addKeys, rev) ==
    IF layers = <<>> THEN [h |-> h, err |-> FALSE]
    ELSE LET its == h[Head(layers)].items
             merge_dct == IF addKeys THEN its ELSE FilterKeys(h, rtn, its, rev)
             one == MergeItems(h, rtn, merge_dct, addKeys, rev)
         IN  IF one.err THEN one
             ELSE MergeLayers(one.h, rtn, Tail(layers), addKeys, rev)

\* dict_merge(*layers, add_keys): the heap after the call, the address of the
\* dict returned, and whether TypeError was raised instead
dict_merge(h, layers, addKeys, rev) ==
    LET rtn == Len(h) + 1
        done == MergeLayers(DictCopy(h, layers[1]), rtn, Tail(layers), addKeys, rev)
    IN  [h |-> done.h, r |-> rtn, err |-> done.err]

\* ------------------------------------------------------------------ inputs
\* The input mappings, written as trees and then laid out in the heap.
TScalar(x) == [t |-> x.t, v |-> x.v, items |-> <<>>]
TList(s) == [t |-> "list", v |-> 0, items |-> s]
TDict(s) == [t |-> "dict", v |-> 0, items |-> s]

RECURSIVE Build(_, _)
RECURSIVE BuildSeq(_, _, _, _)
BuildSeq(h, its, isDict, done) ==
    IF its = <<>> THEN [h |-> h, items |-> done]
    ELSE LET b == Build(h, IF isDict THEN Head(its).val ELSE Head(its))
             e == IF isDict THEN [key |-> Head(its).key, val |-> b.val] ELSE b.val
         IN  BuildSeq(b.h, Tail(its), isDict, Append(done, e))

Build(h, tr) ==
    IF tr.t \in {"list", "dict"}
    THEN LET bs == BuildSeq(h, tr.items, tr.t = "dict", <<>>)
         IN  [h |-> Append(bs.h, [kind |-> tr.t, items |-> bs.items]),
              val |-> Ref(tr.t, Len(bs.h) + 1)]
    ELSE [h |-> h, val |-> [t |-> tr.t, v |-> tr.v]]

RECURSIVE BuildAll(_, _, _)
BuildAll(h, trees, addrs) ==
    IF trees = <<>> THEN [h |-> h, addrs |-> addrs]
    ELSE LET b == Build(h, Head(trees))
         IN  BuildAll(b.h, Tail(trees), Append(addrs, b.val.v))

SeqsUpTo(S, n) == UNION {[1..m -> S] : m \in 0..n}


\* Lists of at most MaxLen elements drawn from S
Lists(S) == {TList(s) : s \in SeqsUpTo({TScalar(e) : e \in S}, MaxLen)}

Item(k, tr) == [key |-> k, val |-> tr]

\* The mappings with at most the key k, its value drawn from V
Maps(k, V) == {TDict(<<>>)} \cup {TDict(<<Item(k, tr)>>) : tr \in V}

\* The mappings over the keys k1 and k2 (in that order)
Maps2(k1, V1, k2, V2) ==
    Maps(k1, V1) \cup Maps(k2, V2)
        \cup {TDict(<<Item(k1, a), Item(k2, b)>>) : a \in V1, b \in V2}

Scalars == {PyInt(0), PyInt(1), PyStr(0), PyStr(1), PyBool(1), None}

TScalars == {TScalar(e) : e \in Scalars}

InnerMaps ==
    {TDict(<<>>), TDict(<<Item("y", TScalar(PyInt(1)))>>),
     TDict(<<Item("z", TList(<<TScalar(PyInt(2))>>))>>)}

MergeValues == TScalars \cup Lists({PyInt(1), PyInt(2)}) \cup InnerMaps

MergeTops == Maps("x", MergeValues)

\* Layers with a second key, w, for the calls with two layers
SecondValues ==
    {TScalar(PyInt(1)), TScalar(PyStr(1)), TList(<<TScalar(PyInt(1))>>),
     TDict(<<>>)}

MergeTops2 == Maps2("x", MergeValues, "w", SecondValues)

\* The layers of one call: one to MaxLayers layers after the first over x,
\* or two layers over x and w
LayerLists ==
    UNION {[1..n -> MergeTops] : n \in 2..MaxLayers} \cup [1..2 -> MergeTops2]

NoResult == [r |-> 0, err |-> FALSE]

\* ------------------------------------------------- dict_merge, one call
InitMerge ==
    /\ \E trees \in LayerLists :
          LET b == BuildAll(<<>>, trees, <<>>)
          IN  heap = b.h /\ heap0 = b.h /\ args = b.addrs
    /\ add_keys \in BOOLEAN
    /\ pc = "ready"
    /\ copies = FALSE
    /\ result = NoResult
    /\ path = Unused
    /\ plug = Unused

CallDictMerge ==
    /\ pc = "ready"
    /\ \E rev \in BOOLEAN :
          LET m == dict_merge(heap, args, add_keys, rev)
          IN  /\ heap' = m.h
              /\ result' = [r |-> m.r, err |-> m.err]
    /\ pc' = "done"
    /\ UNCHANGED <<heap0, args, add_keys, copies, path, plug>>

NextMerge == CallDictMerge

SpecMerge == InitMerge /\ [][NextMerge]_vars


\* ---- the claims on one dict_merge call
Layer(i) == Ref("dict", args[i])
Returned == Ref("dict", result.r)

\* The keys of all the layers
AllKeys == UNION {DictKeys(heap0, args[i]) : i \in DOMAIN args}

\* The indices of the layers that hold key k, and the last of them
Holders(k) == {i \in DOMAIN args : HasKey(heap0, args[i], k)}
LastValue(k) ==
    DictGet(heap0, args[CHOOSE i \in Holders(k) : \A j \in Holders(k) : j <= i], k)

AllScalarAt(k) == \A i \in Holders(k) : IsScalar(DictGet(heap0, args[i], k))

\* C1: after dict_merge returns or raises, every input layer, nested
\* mappings and sequences included, equals what it was before the call.
C1_InputsNeverMutated ==
    pc = "done" =>
        \A i \in DOMAIN args : PyEq(heap, Layer(i), heap0, Layer(i))

\* One side is a sequence and the other side is one of its elements
C7_Reconcilable(a, b) ==
    \/ b.t = "list" /\ Contains(heap0, b.v, a)
    \/ a.t = "list" /\ Contains(heap0, a.v, b)

\* C7: a key met in the accumulator and in the incoming layer with values of
\* different categories, neither a member of the other, makes dict_merge
\* raise the type-conflict error and return no result.
C7_MismatchRaises ==
    pc = "done" =>
        \A k \in DictKeys(heap0, args[1]) \cap DictKeys(heap0, args[2]) :
            LET a == DictGet(heap0, args[1], k)
                b == DictGet(heap0, args[2], k)
            IN  Category(a) # Category(b) /\ ~C7_Reconcilable(a, b) => result.err

\* acc followed by the elements of vs not yet present, in order
RECURSIVE C9_Union(_, _)
C9_Union(acc, vs) ==
    IF vs = <<>> THEN acc
    ELSE IF \E i \in DOMAIN acc : PyEq(heap0, acc[i], heap0, Head(vs))
    THEN C9_Union(acc, Tail(vs))
    ELSE C9_Union(Append(acc, Head(vs)), Tail(vs))

C9_SameSeq(h, s, t) ==
    Len(s) = Len(t) /\ \A i \in DOMAIN s : PyEq(h, s[i], heap0, t[i])

\* C9: a key holding a sequence in the accumulator and in the incoming layer
\* ends with the accumulator's sequence followed by the incoming elements not
\* yet present, in order of first appearance.
C9_SequenceUnion ==
    pc = "done" /\ Len(args) = 2 /\ ~result.err =>
        \A k \in DictKeys(heap0, args[1]) \cap DictKeys(heap0, args[2]) :
            LET a == DictGet(heap0, args[1], k)
                b == DictGet(heap0, args[2], k)
                r == DictGet(heap, result.r, k)
            IN  a.t = "list" /\ b.t = "list" =>
                    /\ r.t = "list"
                    /\ C9_SameSeq(heap, heap[r.v].items,
                                  C9_Union(heap0[a.v].items, heap0[b.v].items))

\* The key paths of dict d: its keys, and under each the paths of a nested dict
RECURSIVE KeyPaths(_, _)
KeyPaths(h, d) ==
    UNION {{<<k>>} \cup
           (LET x == DictGet(h, d, k)
            IN  IF x.t = "dict" THEN {<<k>> \o p : p \in KeyPaths(h, x.v)} ELSE {})
           : k \in DictKeys(h, d)}

\* C10: with add_keys false the result has the key paths of layer_1 and no
\* other, at the top level and inside every nested mapping.
C10_NoNewKeys ==
    pc = "done" /\ ~add_keys /\ ~result.err =>
        KeyPaths(heap, result.r) = KeyPaths(heap0, args[1])


\* C8 as first stated: a key whose values are scalars in every layer holding
\* it merges without error, and ends with the value of the last such layer.
C8_ScalarsNeverConflict ==
    pc = "done" /\ (\A k \in AllKeys : AllScalarAt(k)) =>
        /\ ~result.err
        /\ \A k \in DictKeys(heap, result.r) :
              PyEq(heap, DictGet(heap, result.r, k), heap0, LastValue(k))

\* The incoming scalar v may replace the accumulator's scalar acc: acc is
\* falsy, or v is an instance of acc's type.
C8_Fits(acc, v) ==
    \/ acc.t = "none"
    \/ acc.t \in {"int", "bool", "str"} /\ acc.v = 0
    \/ acc.t = v.t
    \/ acc.t = "int" /\ v.t = "bool"

\* The scalars met at key k, in the order of their layers
RECURSIVE C8_Chain(_, _)
C8_Chain(k, i) ==
    IF i > Len(args) THEN <<>>
    ELSE (IF HasKey(heap0, args[i], k) THEN <<DictGet(heap0, args[i], k)>> ELSE <<>>)
            \o C8_Chain(k, i + 1)

C8_ChainFits(k) ==
    LET c == C8_Chain(k, 1)
    IN  \A j \in 1..(Len(c) - 1) : C8_Fits(c[j], c[j + 1])

\* Whether the layers after the first get to merge key k
C8_Merged(k) == add_keys \/ HasKey(heap0, args[1], k)

\* C8, amended: later layers win on scalar conflicts between scalars of one
\* type.  (1) A key of the result whose values are scalars in every layer
\* ends with the value of the last layer holding it.  (2) When every key
\* holds only scalars and each incoming scalar is an instance of the type of
\* the truthy scalar it replaces, dict_merge raises nothing.  (3) A truthy
\* scalar met by a scalar of another type raises the type-conflict error.
C8_LaterScalarOfSameTypeWins ==
    pc = "done" =>
        /\ ~result.err =>
              \A k \in DictKeys(heap, result.r) :
                  AllScalarAt(k) =>
                      PyEq(heap, DictGet(heap, result.r, k), heap0, LastValue(k))
        /\ (\A k \in AllKeys : AllScalarAt(k) /\ C8_ChainFits(k)) => ~result.err
        /\ (\E k \in AllKeys : AllScalarAt(k) /\ C8_Merged(k) /\ ~C8_ChainFits(k))
              => result.err

\* Three layers hold scalars at x, the first and the last differ, and the
\* result holds the last.
C8_Witness ==
    /\ pc = "done" /\ ~result.err /\ Len(args) = 3
    /\ Holders("x") = {1, 2, 3} /\ AllScalarAt("x")
    /\ ~PyEq(heap0, DictGet(heap0, args[1], "x"), heap0, DictGet(heap0, args[3], "x"))
    /\ ~Falsy(heap0, DictGet(heap0, args[1], "x"))
    /\ ~Falsy(heap0, DictGet(heap0, args[2], "x"))
    /\ PyEq(heap, DictGet(heap, result.r, "x"), heap0, DictGet(heap0, args[3], "x"))


\* ------------------------------------- dict_merge, the three groupings
InnerLeaves == TScalars \cup Lists({PyInt(1)})

AssocValues ==
    TScalars \cup Lists({PyInt(1), PyInt(2)})
        \cup Maps("y", InnerLeaves)

AssocTops == Maps("x", AssocValues)

NoRun == [r |-> 0, err |-> FALSE, h |-> <<>>]

InitAssoc ==
    /\ \E trees \in [1..3 -> AssocTops] :
          LET b == BuildAll(<<>>, trees, <<>>)
          IN  heap = b.h /\ heap0 = b.h /\ args = b.addrs
    /\ add_keys = TRUE
    /\ pc = "ready"
    /\ copies \in BOOLEAN
    /\ result = [left |-> NoRun, right |-> NoRun, flat |-> NoRun]
    /\ path = Unused
    /\ plug = Unused

\* The heap an expression starts from, and what is kept of its run
HeapIn == IF copies THEN heap0 ELSE heap
Run(m) == [r |-> m.r, err |-> m.err, h |-> IF copies THEN m.h ELSE <<>>]
HeapOut(m) == IF copies THEN heap ELSE m.h

\* The outer call of a grouping, once the inner call has ended as `inner`:
\* a TypeError of the inner call leaves the expression
OuterLeft(inner, c) ==
    IF inner.err THEN inner ELSE dict_merge(inner.h, <<inner.r, c>>, TRUE, FALSE)

OuterRight(a, inner) ==
    IF inner.err THEN inner ELSE dict_merge(inner.h, <<a, inner.r>>, TRUE, FALSE)

\* dict_merge(dict_merge(a, b), c)
MergeLeft(h, a, b, c) == OuterLeft(dict_merge(h, <<a, b>>, TRUE, FALSE), c)

\* dict_merge(a, dict_merge(b, c))
MergeRight(h, a, b, c) == OuterRight(a, dict_merge(h, <<b, c>>, TRUE, FALSE))

\* The run m of expression e ends: its result is kept
Finished(e, m) ==
    /\ result' = [result EXCEPT ![e] = Run(m)]
    /\ heap' = HeapOut(m)

EvalLeft ==
    /\ pc = "ready"
    /\ Finished("left", MergeLeft(HeapIn, args[1], args[2], args[3]))
    /\ pc' = "left"
    /\ UNCHANGED <<heap0, args, add_keys, copies, path, plug>>

EvalRight ==
    /\ pc = "left"
    /\ Finished("right", MergeRight(HeapIn, args[1], args[2], args[3]))
    /\ pc' = "right"
    /\ UNCHANGED <<heap0, args, add_keys, copies, path, plug>>

EvalFlat ==
    /\ pc = "right"
    /\ Finished("flat", dict_merge(HeapIn, args, TRUE, FALSE))
    /\ pc' = "done"
    /\ UNCHANGED <<heap0, args, add_keys, copies, path, plug>>

NextAssoc == EvalLeft \/ EvalRight \/ EvalFlat

SpecAssoc == InitAssoc /\ [][NextAssoc]_vars

HeapOf(run) == IF copies THEN run.h ELSE heap
SameResult(p, q) == PyEq(HeapOf(p), Ref("dict", p.r), HeapOf(q), Ref("dict", q.r))

\* C2: when none of the three groupings raises the type-conflict error,
\* dict_merge(dict_merge(a, b), c), dict_merge(a, dict_merge(b, c)) and
\* dict_merge(a, b, c) are equal.
C2_Associative ==
    pc = "done" /\ ~result.left.err /\ ~result.right.err /\ ~result.flat.err =>
        /\ SameResult(result.left, result.right)
        /\ SameResult(result.right, result.flat)

\* The three groupings return, on three layers that all hold x with values
\* no two of which are equal, a value equal to none of them.
C2_Witness ==
    /\ pc = "done" /\ ~result.left.err /\ ~result.right.err /\ ~result.flat.err
    /\ Holders("x") = {1, 2, 3}
    /\ \A i \in 1..3 :
          /\ \A j \in 1..3 : i # j => ~PyEq(heap0, Layer(i), heap0, Layer(j))
          /\ ~PyEq(HeapOf(result.left), Ref("dict", result.left.r), heap0, Layer(i))


\* ------------------------------------------- dict_merge(a, a)
IdemTops == Maps2("x", AssocValues, "w", AssocValues)

InitIdem ==
    /\ \E tree \in IdemTops :
          LET b == Build(<<>>, tree)
          IN  heap = b.h /\ heap0 = b.h /\ args = <<b.val.v, b.val.v>>
    /\ add_keys \in BOOLEAN
    /\ pc = "ready"
    /\ copies = FALSE
    /\ result = NoResult
    /\ path = Unused
    /\ plug = Unused

SpecIdem == InitIdem /\ [][NextMerge]_vars

\* C3: dict_merge(a, a) raises no error and returns a mapping equal to a.
C3_Idempotent ==
    pc = "done" =>
        /\ ~result.err
        /\ PyEq(heap, Returned, heap0, Layer(1))
        /\ PyEq(heap, Returned, heap, Layer(1))

\* a holds a sequence with a repeated element at x and, at w, a mapping
\* with a falsy value; dict_merge(a, a) has returned.
C3_Witness ==
    /\ pc = "done" /\ ~result.err
    /\ LET x == DictGet(heap0, args[1], "x")
           w == DictGet(heap0, args[1], "w")
       IN  /\ x.t = "list" /\ Len(heap0[x.v].items) = 2
           /\ heap0[x.v].items[1] = heap0[x.v].items[2]
           /\ w.t = "dict" /\ HasKey(heap0, w.v, "y")
           /\ Falsy(heap0, DictGet(heap0, w.v, "y"))


\* ------------------------------------------------- dot2dict and nested_get
\* A string is a sequence of characters; a mapping is a tree, as the inputs
\* of dict_merge are.
Dot == "."

\* key.split(".")
RECURSIVE Split(_, _)
Split(str, part) ==
    IF str = <<>> THEN <<part>>
    ELSE IF Head(str) = Dot THEN <<part>> \o Split(Tail(str), <<>>)
    ELSE Split(Tail(str), Append(part, Head(str)))

\* ".".join(parts)
RECURSIVE Join(_)
Join(parts) ==
    IF parts = <<>> THEN <<>>
    ELSE IF Len(parts) = 1 THEN parts[1]
    ELSE parts[1] \o <<Dot>> \o Join(Tail(parts))

RECURSIVE dot2dict(_, _)
dot2dict(key, val) ==
    IF key = <<>> THEN val
    ELSE LET parts == Split(key, <<>>)
             tail == parts[Len(parts)]
         IN  dot2dict(Join(SubSeq(parts, 1, Len(parts) - 1)),
                      TDict(<<Item(tail, val)>>))

TNone == TScalar(None)

\* d.get(k, default) on a tree
TGet(d, k, default) ==
    IF \E i \in DOMAIN d.items : d.items[i].key = k
    THEN d.items[CHOOSE i \in DOMAIN d.items : d.items[i].key = k].val
    ELSE default

\* The loop of nested_get; .get on anything but a dict raises AttributeError
RECURSIVE NestedLoop(_, _, _)
NestedLoop(keys, last_key, dict_nest) ==
    IF keys = <<>> THEN [raised |-> "", val |-> TNone]
    ELSE IF dict_nest.t # "dict" THEN [raised |-> "AttributeError", val |-> TNone]
    ELSE IF Head(keys) # last_key
    THEN NestedLoop(Tail(keys), last_key, TGet(dict_nest, Head(keys), TDict(<<>>)))
    ELSE [raised |-> "", val |-> TGet(dict_nest, Head(keys), TNone)]

nested_get(key_list, input_dict) ==
    IF key_list = <<>> THEN [raised |-> "IndexError", val |-> TNone]
    ELSE NestedLoop(key_list, key_list[Len(key_list)], input_dict)

Segments == {<<"a">>, <<"b">>, <<"a", "b">>, <<"a", Dot, "b">>}

KeyLists == SeqsUpTo(Segments, MaxPath)

PathValues == {TScalar(PyInt(5)), TScalar(PyInt(0)), TNone}

InitPath ==
    /\ \E kl \in KeyLists, bl \in KeyLists \ {<<>>}, v \in PathValues :
          path = [key_list |-> kl, built_from |-> bl, val |-> v, source |-> TNone]
    /\ pc = "ready"
    /\ result = [raised |-> "", val |-> TNone]
    /\ heap = Unused /\ heap0 = Unused /\ args = Unused
    /\ add_keys = TRUE /\ copies = FALSE /\ plug = Unused

\* source = dot2dict(".".join(built_from), val)
CallDot2Dict ==
    /\ pc = "ready"
    /\ path' = [path EXCEPT !.source = dot2dict(Join(path.built_from), path.val)]
    /\ pc' = "built"
    /\ UNCHANGED <<heap, heap0, args, add_keys, copies, result, plug>>

\* nested_get(key_list, source)
CallNestedGet ==
    /\ pc = "built"
    /\ result' = nested_get(path.key_list, path.source)
    /\ pc' = "done"
    /\ UNCHANGED <<heap, heap0, args, add_keys, copies, path, plug>>

NextPath == CallDot2Dict \/ CallNestedGet

SpecPath == InitPath /\ [][NextPath]_vars

DotFree(seg) == \A i \in DOMAIN seg : seg[i] # Dot

\* C5: for a non-empty list keys of non-empty segments (which may repeat),
\* nested_get(keys, dot2dict(".".join(keys), v)) is v.
C5_RoundTrip ==
    pc = "done" /\ path.key_list = path.built_from
        /\ (\A i \in DOMAIN path.key_list : DotFree(path.key_list[i]))
    => result.raised = "" /\ result.val = path.val

\* The value found by following keys from d one level at a time, if any
RECURSIVE Walk(_, _)
Walk(keys, d) ==
    IF keys = <<>> THEN [found |-> TRUE, val |-> d]
    ELSE IF d.t = "dict" /\ \E i \in DOMAIN d.items : d.items[i].key = Head(keys)
    THEN Walk(Tail(keys), TGet(d, Head(keys), TNone))
    ELSE [found |-> FALSE, val |-> TNone]

\* C6: nested_get raises nothing; it returns the absent-marker when a key of
\* the path is missing at its level, and the value stored at the end of the
\* path when the whole path resolves.
C6_NeverRaises ==
    pc = "done" /\ path.key_list # <<>> =>
        /\ result.raised = ""
        /\ result.val = Walk(path.key_list, path.source).val


\* ------------------------------------------------------------ load_plugins
\* The registry behind HandlerPicker: the names registered under the entry
\* point; a factory raises on arguments it does not accept.
Registered == {"regex", "header"}

PluginNames == Registered \cup {"absent"}

\* A PluginSpec: its name, which it must have, and its other keys
PluginSpecs == [name : PluginNames, inputs : {"good", "bad"}]

Sections == {"extractors", "outputs"}

\* plugins.get_processor(**plugin_conf): the instance, or the exception
get_processor(plugin_conf, id) ==
    IF plugin_conf.name \notin Registered
    THEN [exc |-> "PluginNotFoundError", inst |-> <<>>]
    ELSE IF plugin_conf.inputs = "bad"
    THEN [exc |-> "Exception", inst |-> <<>>]
    ELSE [exc |-> "", inst |-> [name |-> plugin_conf.name, id |-> id]]

InitPlugins ==
    /\ \E specs \in SeqsUpTo(PluginSpecs, MaxSpecs), sec \in Sections,
          present \in BOOLEAN :
          plug = [conf |-> specs, conf_section |-> sec, present |-> present,
                  i |-> 1, loaded_plugins |-> <<>>, log |-> <<>>]
    /\ pc = "ready"
    /\ result = [outcome |-> "", value |-> <<>>, section |-> ""]
    /\ heap = Unused /\ heap0 = Unused /\ args = Unused
    /\ add_keys = TRUE /\ copies = FALSE /\ path = Unused

\* loaded_plugins = []; the loop starts on conf[conf_section], a KeyError
\* when the section is absent
EnterLoop ==
    /\ pc = "ready"
    /\ IF plug.present
       THEN pc' = "loop" /\ UNCHANGED result
       ELSE pc' = "done" /\ result' = [result EXCEPT !.outcome = "KeyError"]
    /\ UNCHANGED <<heap, heap0, args, add_keys, copies, path, plug>>

\* One pass of the loop with the handler dropped: the exception leaves
\* load_plugins
LoadOneUncaught ==
    /\ pc = "loop" /\ plug.i <= Len(plug.conf)
    /\ LET got == get_processor(plug.conf[plug.i], plug.i)
       IN  IF got.exc = ""
           THEN /\ plug' = [plug EXCEPT !.i = @ + 1,
                                        !.loaded_plugins = Append(@, got.inst)]
                /\ UNCHANGED <<pc, result>>
           ELSE /\ pc' = "done"
                /\ result' = [result EXCEPT !.outcome = got.exc]
                /\ UNCHANGED plug
    /\ UNCHANGED <<heap, heap0, args, add_keys, copies, path>>

\* One pass of the loop: try get_processor and append; except Exception, log
\* the plugin's name
LoadOne ==
    /\ pc = "loop" /\ plug.i <= Len(plug.conf)
    /\ LET got == get_processor(plug.conf[plug.i], plug.i)
       IN  IF got.exc = ""
           THEN plug' = [plug EXCEPT !.i = @ + 1,
                                     !.loaded_plugins = Append(@, got.inst)]
           ELSE plug' = [plug EXCEPT !.i = @ + 1,
                                     !.log = Append(@, plug.conf[plug.i].name)]
    /\ UNCHANGED <<heap, heap0, args, add_keys, pc, copies, result, path>>

\* After the loop: raise NoPluginsError or return loaded_plugins
Finish ==
    /\ pc = "loop" /\ plug.i > Len(plug.conf)
    /\ IF plug.loaded_plugins = <<>>
       THEN result' = [outcome |-> "NoPluginsError", value |-> <<>>,
                       section |-> plug.conf_section]
       ELSE result' = [outcome |-> "returned", value |-> plug.loaded_plugins,
                       section |-> ""]
    /\ pc' = "done"
    /\ UNCHANGED <<heap, heap0, args, add_keys, copies, path, plug>>

NextPlugins == EnterLoop \/ LoadOne \/ Finish

SpecPlugins == InitPlugins /\ [][NextPlugins]_vars

\* What the claim expects of a section: the instances of the specs that name
\* a registered plugin with inputs its factory accepts, in the specs' order
C4_Succeeds(spec) == spec.name \in {"regex", "header"} /\ spec.inputs = "good"

RECURSIVE C4_Expected(_, _)
C4_Expected(specs, i) ==
    IF i > Len(specs) THEN <<>>
    ELSE (IF C4_Succeeds(specs[i]) THEN <<[name |-> specs[i].name, id |-> i]>>
          ELSE <<>>) \o C4_Expected(specs, i + 1)

=============================================================================
